---- MODULE Spec2Model ----
(***************************************************************************)
(* The intent-governance hook layer of Roo-Code: HookEngine (pre/post tool  *)
(* hooks, session registry, scope enforcement, audit trace) and the         *)
(* select_active_intent tool.                                               *)
(*                                                                          *)
(* Strings the code inspects character by character (paths, scope entries,  *)
(* intent ids, the text of active_intents.yaml) are sequences of short      *)
(* strings, one per character (YAML keywords are kept as one element), so   *)
(* that startsWith / includes / path.relative are computed, not assumed.    *)
(***************************************************************************)
EXTENDS Integers, Sequences, FiniteSets, TLC

VARIABLES intentStore, activeIntents, traceLog, last,
          inv, performed, traceFile, clock

vars == <<intentStore, activeIntents, traceLog, last,
          inv, performed, traceFile, clock>>

\* The state of the tool invocations that run through BaseTool.
toolVars == <<inv, performed, traceFile, clock>>

(***************************************************************************)
(* Bounds                                                                   *)
(***************************************************************************)
\* The trace log is capped at this many records.
MaxTrace == 2

(***************************************************************************)
(* String helpers (String.prototype.startsWith / includes, split, join)     *)
(***************************************************************************)
StartsWith(s, prefix) ==
    /\ Len(prefix) <= Len(s)
    /\ SubSeq(s, 1, Len(prefix)) = prefix

Includes(s, needle) ==
    \E i \in 1..(Len(s) + 1) :
        /\ i + Len(needle) - 1 <= Len(s)
        /\ SubSeq(s, i, i + Len(needle) - 1) = needle

RECURSIVE SplitSlash(_)
\* s.split("/"): the components between separators, empty ones included.
SplitSlash(s) ==
    IF \A i \in 1..Len(s) : s[i] # "/"
    THEN <<s>>
    ELSE LET k == CHOOSE i \in 1..Len(s) :
                      s[i] = "/" /\ \A j \in 1..(i - 1) : s[j] # "/"
         IN  <<SubSeq(s, 1, k - 1)>> \o SplitSlash(SubSeq(s, k + 1, Len(s)))

RECURSIVE JoinSlash(_)
JoinSlash(parts) ==
    IF Len(parts) = 0 THEN <<>>
    ELSE IF Len(parts) = 1 THEN parts[1]
    ELSE parts[1] \o <<"/">> \o JoinSlash(Tail(parts))

(***************************************************************************)
(* node:path (posix): resolve and relative                                  *)
(***************************************************************************)
RECURSIVE NormalizeParts(_, _)
\* Walks the components left to right: "" and "." are dropped, ".." removes
\* the last kept component (and is itself dropped at the root).
NormalizeParts(parts, acc) ==
    IF Len(parts) = 0 THEN acc
    ELSE LET h == Head(parts) IN
         IF h = <<>> \/ h = <<".">>
         THEN NormalizeParts(Tail(parts), acc)
         ELSE IF h = <<".", ".">>
         THEN NormalizeParts(Tail(parts),
                             IF Len(acc) = 0 THEN acc
                             ELSE SubSeq(acc, 1, Len(acc) - 1))
         ELSE NormalizeParts(Tail(parts), Append(acc, h))

IsAbsolute(p) == Len(p) > 0 /\ p[1] = "/"

\* path.resolve(base, p) as the list of components below "/".
ResolveParts(base, p) ==
    IF IsAbsolute(p)
    THEN NormalizeParts(SplitSlash(p), <<>>)
    ELSE NormalizeParts(SplitSlash(base) \o SplitSlash(p), <<>>)

RECURSIVE CommonLen(_, _)
CommonLen(a, b) ==
    IF Len(a) = 0 \/ Len(b) = 0 \/ Head(a) # Head(b) THEN 0
    ELSE 1 + CommonLen(Tail(a), Tail(b))

\* path.relative(from, to), both resolved against processCwd first.
PathRelative(processCwd, from, to) ==
    LET f == ResolveParts(processCwd, from)
        t == ResolveParts(processCwd, to)
        k == CommonLen(f, t)
        ups == [i \in 1..(Len(f) - k) |-> <<".", ".">>]
    IN  JoinSlash(ups \o SubSeq(t, k + 1, Len(t)))

(***************************************************************************)
(* The task and the values its calls carry                                  *)
(***************************************************************************)
Tasks == {"t1", "t2"}

\* task.cwd, the project root; relative paths resolve against the process's
\* working directory, taken to be the project root as well.
Cwd == <<"/", "w">>
ProcessCwd == Cwd

WRITE == "write_to_file"
SELECT == "select_active_intent"
READ == "read_file"
Tools == {WRITE, SELECT, READ}

\* Map.get of a missing key, and a missing parameter: the empty string is
\* falsy too and can never be stored (HookEngine.ts:51), so <<>> is both.
Undefined == <<>>

\* Two intent ids, the first a substring of the second.
I1 == <<"I", "1">>
I10 == <<"I", "1", "0">>
IntentIds == {I1, I10}

\* params.path of write_to_file calls: a file below directory a, a sibling
\* of a whose name starts with "a", and a path that climbs out of the root.
PathInDir == <<"/", "w", "/", "a", "/", "x">>
PathSibling == <<"/", "w", "/", "a", "b">>
PathDotDot == <<"a", "/", ".", ".", "/", ".", ".", "/", "e">>
Targets == {PathInDir, PathSibling, PathDotDot}

\* params.content of write_to_file calls.
NoContent == "<undefined>"
SomeContent == "const x = 1;"

\* The result handed to the post-hook.
Results == {<<"o", "k">>}

(***************************************************************************)
(* .orchestration/active_intents.yaml                                       *)
(***************************************************************************)
Intent(id, scope) == [id |-> id, owned_scope |-> scope]

ScopeDir == <<"a", "/">>
ScopeBare == <<"a">>

StoreAbsent == [kind |-> "absent", intents |-> <<>>]
StoreCorrupt == [kind |-> "corrupt", intents |-> <<>>]
StoreList(intents) == [kind |-> "list", intents |-> intents]

\* One intent, I10, owning directory a.
StoreMain == StoreList(<<Intent(I10, <<ScopeDir>>)>>)
\* I1 owns "a" (no trailing separator); I10 is listed twice, first with an
\* empty scope.
StoreAlt ==
    StoreList(<<Intent(I1, <<ScopeBare>>), Intent(I10, <<>>),
                Intent(I10, <<ScopeDir>>)>>)

Stores == {StoreAbsent, StoreCorrupt, StoreMain, StoreAlt}

RECURSIVE Flatten(_)
Flatten(seqs) ==
    IF Len(seqs) = 0 THEN <<>> ELSE Head(seqs) \o Flatten(Tail(seqs))

\* An empty list is written "owned_scope: []" (a bare "owned_scope:" would
\* parse as null, not as an empty list).
YamlIntent(i) ==
    <<"- ", "id: ">> \o i.id \o <<"\n", "owned_scope:">>
    \o ( IF Len(i.owned_scope) = 0 THEN <<" ", "[", "]", "\n">>
         ELSE <<"\n">> \o Flatten([k \in 1..Len(i.owned_scope) |->
                           <<"- ">> \o i.owned_scope[k] \o <<"\n">>]) )

\* fs.readFile(intentsPath, "utf-8"): the text of the file.
FileText(store) ==
    IF store.kind = "corrupt"
    THEN <<"- ", "id: ">> \o I10 \o <<"\n", "owned_scope:", " ", "[">>
    ELSE Flatten([k \in 1..Len(store.intents) |-> YamlIntent(store.intents[k])])

\* intents.find(i => i.id === intentId): the first match, or none.
FindIntent(intents, intentId) ==
    LET hits == {k \in 1..Len(intents) : intents[k].id = intentId}
    IN  IF hits = {} THEN <<>>
        ELSE <<intents[CHOOSE k \in hits : \A j \in hits : k <= j]>>

(***************************************************************************)
(* HookEngine.enforceScope                                                  *)
(***************************************************************************)
\* The predicate handed to owned_scope.some(...).
ScopeMatches(scope, relativePath, filePath) ==
    \/ scope = relativePath
    \/ scope = filePath
    \/ StartsWith(relativePath, scope)
    \/ StartsWith(filePath, scope)

\* Mutant: every() in place of some(); an empty scope then allows.
IsAllowedEvery(owned_scope, relativePath, filePath) ==
    \A k \in 1..Len(owned_scope) :
        ScopeMatches(owned_scope[k], relativePath, filePath)

IsAllowed(owned_scope, relativePath, filePath) ==
    \E k \in 1..Len(owned_scope) :
        ScopeMatches(owned_scope[k], relativePath, filePath)

Outcome(outcome, log) == [outcome |-> outcome, log |-> log]

\* path.relative(task.cwd, filePath) of every file path a call can carry.
RelativePath ==
    [p \in Targets \cup {Undefined} |-> PathRelative(ProcessCwd, Cwd, p)]

\* Mutant: the intents are those read once (the main store), not those of
\* the file as it is at the call.
EnforceScopeStale(store, intentId, filePath) ==
    LET found == FindIntent(StoreMain.intents, intentId) IN
    IF found = <<>> THEN Outcome("resolved", "warn-intent-not-found")
    ELSE IF IsAllowed(found[1].owned_scope, RelativePath[filePath], filePath)
    THEN Outcome("resolved", "none")
    ELSE Outcome("ScopeViolation", "none")

\* Mutant: the catch block rethrows nothing.
EnforceScopeSwallow(store, intentId, filePath) ==
    IF store.kind = "absent" THEN Outcome("resolved", "none")
    ELSE Outcome("resolved", "error")

\* How the promise settles ("resolved", or rejected with "ScopeViolation")
\* and what is written to the console.
EnforceScope(store, intentId, filePath) ==
    IF store.kind = "absent" THEN Outcome("resolved", "none")
    ELSE IF store.kind = "corrupt" THEN Outcome("resolved", "error")
    ELSE LET found == FindIntent(store.intents, intentId) IN
         IF found = <<>> THEN Outcome("resolved", "warn-intent-not-found")
         ELSE IF IsAllowed(found[1].owned_scope,
                           RelativePath[filePath], filePath)
         THEN Outcome("resolved", "none")
         ELSE Outcome("ScopeViolation", "none")

(***************************************************************************)
(* HookEngine.preToolExecution                                              *)
(***************************************************************************)
\* Mutant: the commented-out throw for a write without an active intent is
\* live.
PreOutcomeThrows(registry, store, tool, filePath, task, strict) ==
    LET intentId == registry[task] IN
    IF tool = WRITE
    THEN IF intentId = Undefined
         THEN Outcome("NoActiveIntent", "warn-no-active-intent")
         ELSE EnforceScope(store, intentId, filePath)
    ELSE Outcome("resolved", "none")

\* strict is the host's strict-mode wish; the only place it could act is
\* the commented-out throw, so the outcome does not read it.
\* Mutant: the check is made for every tool, not for write_to_file alone.
PreOutcomeEveryTool(registry, store, tool, filePath, task, strict) ==
    LET intentId == registry[task] IN
    IF intentId = Undefined
    THEN Outcome("resolved", "warn-no-active-intent")
    ELSE EnforceScope(store, intentId, filePath)

PreOutcome(registry, store, tool, filePath, task, strict) ==
    LET intentId == registry[task] IN
    IF tool = WRITE
    THEN IF intentId = Undefined
         THEN Outcome("resolved", "warn-no-active-intent")
         ELSE EnforceScope(store, intentId, filePath)
    ELSE Outcome("resolved", "none")

\* The most recent call and how it ended: path and intent_id are
\* params.path and params.intent_id of the call; again says that a
\* select_active_intent post-hook repeats the call made just before it.
Call(op, task, tool, path, intent_id, strict, res) ==
    [op |-> op, task |-> task, tool |-> tool, path |-> path,
     intent_id |-> intent_id, strict |-> strict,
     outcome |-> res.outcome, log |-> res.log, again |-> FALSE]

\* Mutant: a rejected pre-hook releases the task's binding.
PreToolExecutionUnbinds(task, tool, params, strict) ==
    LET res == PreOutcome(activeIntents, intentStore, tool, params.path,
                          task, strict)
    IN  /\ last' = Call("pre", task, tool, params.path, Undefined, strict,
                        res)
        /\ activeIntents' = IF res.outcome = "resolved" THEN activeIntents
                            ELSE [activeIntents EXCEPT ![task] = Undefined]
        /\ UNCHANGED <<intentStore, traceLog>>

PreToolExecution(task, tool, params, strict) ==
    /\ last' = Call("pre", task, tool, params.path, Undefined, strict,
                    PreOutcome(activeIntents, intentStore, tool, params.path,
                               task, strict))
    /\ UNCHANGED <<intentStore, activeIntents, traceLog>>

(***************************************************************************)
(* HookEngine.postToolExecution and traceAction                             *)
(***************************************************************************)
ResultSummaryLen == 100

\* crypto.createHash("sha256").update(c).digest("hex"): injective stand-in.
Sha256(c) == <<"sha256", c>>

\* Mutant: the default for a write without content is dropped.
ContentHashNoDefault(content) == Sha256(content)

ContentHash(content) ==
    Sha256(IF content = NoContent \/ content = "" THEN "" ELSE content)

ResultSummary(result) ==
    SubSeq(result, 1, IF Len(result) < ResultSummaryLen THEN Len(result)
                      ELSE ResultSummaryLen)

\* timestamp is what new Date() gives when the entry is built. The git
\* metadata is read from the environment and copied into the entry; it is
\* not part of this state.
TraceEntry(intentId, tool, params, result, timestamp) ==
    [timestamp |-> timestamp,
     intent_id |-> intentId,
     tool |-> tool,
     params |-> [path |-> params.path,
                 content_hash |-> ContentHash(params.content)],
     result_summary |-> ResultSummary(result),
     file_hash |-> ContentHash(params.content)]

\* Mutant: fs.writeFile in place of fs.appendFile.
WriteFile(log, entry) == <<entry>>

\* fs.appendFile(traceFile, line)
AppendFile(log, entry) == Append(log, entry)

\* What the storage does with an appendFile call.
FsResults == {"ok", "EIO"}

\* The log after traceAction.
TraceAction(registry, log, task, tool, params, result, timestamp) ==
    LET intentId == registry[task] IN
    IF intentId = Undefined THEN log
    ELSE AppendFile(log,
                    TraceEntry(intentId, tool, params, result, timestamp))

\* How the post-hook's promise settles: nothing catches a rejection of
\* fs.appendFile, so it leaves traceAction and postToolExecution.
PostOutcome(registry, task, tool, fs) ==
    IF tool = WRITE /\ registry[task] # Undefined /\ fs # "ok"
    THEN Outcome("AppendFileError", "none")
    ELSE Outcome("resolved", "none")

\* The registry after the select branch of the post-hook.
\* Mutant: a task that is bound keeps its first binding.
SetActiveIntentKeepFirst(registry, task, params) ==
    IF params.intent_id # Undefined /\ registry[task] = Undefined
    THEN [registry EXCEPT ![task] = params.intent_id]
    ELSE registry

\* Mutant: selecting the id a task is bound to releases the binding.
SetActiveIntentToggle(registry, task, params) ==
    IF params.intent_id = Undefined THEN registry
    ELSE IF registry[task] = params.intent_id
    THEN [registry EXCEPT ![task] = Undefined]
    ELSE [registry EXCEPT ![task] = params.intent_id]

\* Mutant: the engine keeps one active intent for all tasks.
SetActiveIntentShared(registry, task, params) ==
    IF params.intent_id # Undefined
    THEN [t \in DOMAIN registry |-> params.intent_id]
    ELSE registry

SetActiveIntent(registry, task, params) ==
    IF params.intent_id # Undefined
    THEN [registry EXCEPT ![task] = params.intent_id]
    ELSE registry

PostToolExecution(task, tool, params, result, fs) ==
    /\ tool = WRITE /\ activeIntents[task] # Undefined /\ fs = "ok"
           => Len(traceLog) < MaxTrace
    /\ activeIntents' = IF tool = SELECT
                        THEN SetActiveIntent(activeIntents, task, params)
                        ELSE activeIntents
    /\ traceLog' = IF tool = WRITE /\ fs = "ok"
                   THEN TraceAction(activeIntents, traceLog, task, tool,
                                    params, result, clock)
                   ELSE traceLog
    /\ last' = [Call("post", task, tool, params.path, params.intent_id,
                     FALSE, PostOutcome(activeIntents, task, tool, fs))
                EXCEPT !.again = /\ tool = SELECT
                                 /\ last.op = "post" /\ last.tool = SELECT
                                 /\ last.task = task
                                 /\ last.intent_id = params.intent_id]
    /\ UNCHANGED intentStore

(***************************************************************************)
(* SelectActiveIntentTool.execute                                           *)
(***************************************************************************)
\* content.includes(intent_id) of every content the store file can have and
\* every id the tool can be asked for.
ContentIncludes ==
    [store \in Stores, intent_id \in IntentIds \cup {Undefined} |->
        Includes(FileText(store), intent_id)]

\* "ok" when pushToolResult is reached, "error" when handleError is.
SelectValidation(store, intent_id) ==
    IF store.kind = "absent" THEN "error"
    ELSE IF ~ContentIncludes[store, intent_id] THEN "error"
    ELSE "ok"

SelectActiveIntentTool(task, params) ==
    LET v == SelectValidation(intentStore, params.intent_id) IN
    /\ activeIntents' = IF v = "ok"
                        THEN SetActiveIntent(activeIntents, task, params)
                        ELSE activeIntents
    /\ last' = Call("select_tool", task, SELECT, Undefined,
                    params.intent_id, FALSE, Outcome(v, "none"))
    /\ UNCHANGED <<intentStore, traceLog>>

(***************************************************************************)
(* The environment: the intent list is created and edited outside the hook  *)
(* layer.                                                                   *)
(***************************************************************************)
EditStore(store) ==
    /\ store # intentStore
    /\ intentStore' = store
    /\ last' = Call("edit", "t1", READ, Undefined, Undefined, FALSE,
                    Outcome("resolved", "none"))
    /\ UNCHANGED <<activeIntents, traceLog>>

(***************************************************************************)
(* Specification                                                            *)
(***************************************************************************)
Params(path, content, id) ==
    [path |-> path, content |-> content, intent_id |-> id]

\* The calls of the three tools: every target is written, one of them
\* without content; every id is selected, and so is the empty id.
ParamsOf(tool) ==
    IF tool = WRITE
    THEN {Params(p, IF p = PathSibling THEN NoContent ELSE SomeContent,
                 Undefined) : p \in Targets}
    ELSE IF tool = SELECT
    THEN {Params(Undefined, NoContent, i) : i \in IntentIds \cup {Undefined}}
    ELSE {Params(Undefined, NoContent, Undefined)}

\* The pre-hook reads no parameter of a tool other than write_to_file; the
\* strict-mode wish matters to a write_to_file of an unbound task alone.
PreParamsOf(tool) ==
    IF tool = WRITE THEN ParamsOf(tool)
    ELSE {Params(Undefined, NoContent, Undefined)}

StrictOf(registry, task, tool) ==
    IF tool = WRITE /\ registry[task] = Undefined THEN BOOLEAN ELSE {FALSE}

\* Only a write_to_file post-hook reaches fs.appendFile.
FsOf(tool) == IF tool = WRITE THEN FsResults ELSE {"ok"}

\* No tool invocation of the task is in progress.
Idle ==
    [pc |-> "idle", params |-> Params(Undefined, NoContent, Undefined),
     seq |-> 0, calls |-> <<>>]

Init ==
    /\ intentStore \in Stores
    /\ activeIntents = [t \in Tasks |-> Undefined]
    /\ traceLog = <<>>
    /\ last = Call("init", "t1", READ, Undefined, Undefined, FALSE,
                   Outcome("resolved", "none"))
    /\ inv = [t \in Tasks |-> Idle]
    /\ performed = <<>>
    /\ traceFile = <<>>
    /\ clock = 0

\* The hooks called in any order, each call run to its end.
Next ==
    \/ \E t \in Tasks, tool \in Tools :
         \E p \in PreParamsOf(tool),
            strict \in StrictOf(activeIntents, t, tool) :
            PreToolExecution(t, tool, p, strict) /\ UNCHANGED toolVars
    \/ \E t \in Tasks, tool \in Tools, r \in Results :
         \E p \in ParamsOf(tool), fs \in FsOf(tool) :
            PostToolExecution(t, tool, p, r, fs) /\ UNCHANGED toolVars
    \/ \E t \in Tasks : \E p \in ParamsOf(SELECT) :
         SelectActiveIntentTool(t, p) /\ UNCHANGED toolVars
    \/ \E s \in Stores : EditStore(s) /\ UNCHANGED toolVars

Spec == Init /\ [][Next]_vars

(***************************************************************************)
(* Tool invocations through BaseTool: pre-hook, execute, post-hook, with    *)
(* the post-hooks of different tasks overlapping at the awaits of           *)
(* traceAction.                                                             *)
(***************************************************************************)
\* The text of agent_trace.jsonl is a sequence of JSON texts and newlines.
JsonText(entry) == [json |-> TRUE, entry |-> entry]

Newline == [json |-> FALSE, entry |-> [intent_id |-> Undefined]]

\* JSON.stringify(traceEntry) + "\n"
LineText(entry) == <<JsonText(entry), Newline>>

\* Mutant: the record and its newline are appended by two calls.
AppendCallsSplit(entry) == << <<JsonText(entry)>>, <<Newline>> >>

\* The strings handed to fs.appendFile, one per call: the whole line in one
\* call. A call opens the file for appending and writes its string as one
\* unit.
AppendCalls(entry) == << LineText(entry) >>

\* The records a reader of the file gets: one per line that is one JSON
\* text.
RECURSIVE ParseLines(_, _, _)
ParseLines(file, line, records) ==
    IF Len(file) = 0 THEN records
    ELSE IF Head(file).json
    THEN ParseLines(Tail(file), Append(line, Head(file)), records)
    ELSE ParseLines(Tail(file), <<>>,
                    IF Len(line) = 1 THEN Append(records, line[1].entry)
                    ELSE records)

ParsedRecords(file) == ParseLines(file, <<>>, <<>>)

\* The invocations that have passed the pre-hook and not yet executed.
Admitted == {t \in Tasks : inv[t].pc = "execute"}

\* The select_active_intent tool, started when the task runs no other tool.
ToolSelect(task, params) ==
    /\ inv[task].pc = "idle"
    /\ SelectActiveIntentTool(task, params)
    /\ UNCHANGED toolVars

\* await HookEngine.getInstance().preToolExecution(this.name, params, task):
\* a rejection ends the invocation.
ToolPre(task, params) ==
    /\ inv[task].pc = "idle"
    /\ Len(performed) + Cardinality(Admitted) < MaxTrace
    /\ PreToolExecution(task, WRITE, params, FALSE)
    /\ inv' = [inv EXCEPT ![task] =
                 IF last'.outcome = "resolved"
                 THEN [Idle EXCEPT !.pc = "execute", !.params = params]
                 ELSE Idle]
    /\ UNCHANGED <<performed, traceFile, clock>>

\* await this.execute(params, task, callbacks): write_to_file writes the
\* file.
ToolExecute(task) ==
    /\ inv[task].pc = "execute"
    /\ performed' = Append(performed, [task |-> task,
                                       path |-> inv[task].params.path,
                                       logged |-> 0])
    /\ inv' = [inv EXCEPT ![task].pc = "post",
                          ![task].seq = Len(performed) + 1]
    /\ UNCHANGED <<intentStore, activeIntents, traceLog, last, traceFile,
                   clock>>

\* await HookEngine.getInstance().postToolExecution(...), as far as
\* traceAction's await getGitMetadata(task.cwd): the entry is built from the
\* binding read on entry and the time now read by new Date(), which is the
\* time of the reading before it or one unit later; an unbound task's
\* post-hook returns at once.
ToolPost(task, result, now) ==
    /\ inv[task].pc = "post"
    /\ now \in {clock, clock + 1}
    /\ IF activeIntents[task] = Undefined
       THEN /\ inv' = [inv EXCEPT ![task] = Idle]
            /\ last' = Call("post", task, WRITE, inv[task].params.path,
                            Undefined, FALSE, Outcome("resolved", "none"))
            /\ clock' = clock
       ELSE /\ clock' = now
            /\ inv' = [inv EXCEPT
                         ![task].pc = "append",
                         ![task].calls =
                            AppendCalls(TraceEntry(activeIntents[task], WRITE,
                                                   inv[task].params, result,
                                                   clock'))]
            /\ UNCHANGED last
    /\ UNCHANGED <<intentStore, activeIntents, traceLog, performed, traceFile>>

\* await fs.appendFile(traceFile, ...), once the metadata has arrived; the
\* post-hook resolves after its last call.
TraceAppend(task) ==
    /\ inv[task].pc = "append"
    /\ traceFile' = traceFile \o Head(inv[task].calls)
    /\ traceLog' = ParsedRecords(traceFile')
    /\ IF Len(inv[task].calls) = 1
       THEN /\ inv' = [inv EXCEPT ![task] = Idle]
            /\ performed' = [performed EXCEPT
                               ![inv[task].seq].logged = Len(traceLog')]
            /\ last' = Call("post", task, WRITE, inv[task].params.path,
                            Undefined, FALSE, Outcome("resolved", "none"))
       ELSE /\ inv' = [inv EXCEPT ![task].calls = Tail(@)]
            /\ UNCHANGED <<performed, last>>
    /\ UNCHANGED <<intentStore, activeIntents, clock>>

NextTool ==
    \/ \E t \in Tasks : \E p \in ParamsOf(SELECT) : ToolSelect(t, p)
    \/ \E t \in Tasks : \E p \in ParamsOf(WRITE) : ToolPre(t, p)
    \/ \E t \in Tasks : ToolExecute(t)
    \/ \E t \in Tasks, r \in Results : ToolPost(t, r, clock)
    \/ \E t \in Tasks : TraceAppend(t)

\* The invocations with every reading of the clock giving the same time.
SpecTool == Init /\ [][NextTool]_vars

NextClock ==
    \/ \E t \in Tasks : \E p \in ParamsOf(SELECT) : ToolSelect(t, p)
    \/ \E t \in Tasks : \E p \in ParamsOf(WRITE) : ToolPre(t, p)
    \/ \E t \in Tasks : ToolExecute(t)
    \/ \E t \in Tasks, r \in Results :
         \E now \in {clock, clock + 1} : ToolPost(t, r, now)
    \/ \E t \in Tasks : TraceAppend(t)

\* The invocations with time passing between the readings of the clock.
SpecClock == Init /\ [][NextClock]_vars

\* The task whose invocations run while the store is edited.
ReloadTasks == {"t1"}

NextReload ==
    \/ \E t \in ReloadTasks : \E p \in ParamsOf(SELECT) : ToolSelect(t, p)
    \/ \E t \in ReloadTasks : \E p \in ParamsOf(WRITE) : ToolPre(t, p)
    \/ \E t \in ReloadTasks : ToolExecute(t)
    \/ \E t \in ReloadTasks, r \in Results : ToolPost(t, r, clock)
    \/ \E t \in ReloadTasks : TraceAppend(t)
    \/ \E s \in Stores : EditStore(s) /\ UNCHANGED toolVars

\* The invocations of one task with active_intents.yaml edited between any
\* two steps.
SpecReload == Init /\ [][NextReload]_vars

(***************************************************************************)
(* What the specification says of paths: the target normalized relative to  *)
(* the project root, and the subtree below a scope entry, component by      *)
(* component.                                                               *)
(***************************************************************************)
Components(p) == SelectSeq(SplitSlash(p), LAMBDA c : c # <<>>)

NormalizedTarget(filePath) == PathRelative(ProcessCwd, Cwd, filePath)

EscapesRoot(filePath) ==
    LET c == Components(NormalizedTarget(filePath))
    IN  Len(c) > 0 /\ c[1] = <<".", ".">>

IsComponentPrefix(e, t) == Len(e) <= Len(t) /\ SubSeq(t, 1, Len(e)) = e

InSubtree(filePath, entry) ==
    /\ ~EscapesRoot(filePath)
    /\ IsComponentPrefix(Components(entry),
                         Components(NormalizedTarget(filePath)))

InOwnedScope(filePath, owned_scope) ==
    \E k \in 1..Len(owned_scope) : InSubtree(filePath, owned_scope[k])

\* The last call was the pre-hook of write_to_file.
PreWrite == last.op = "pre" /\ last.tool = WRITE

\* ... made by a bound task whose intent id resolves in a parseable store.
PreWriteResolved ==
    /\ PreWrite
    /\ activeIntents[last.task] # Undefined
    /\ intentStore.kind = "list"
    /\ FindIntent(intentStore.intents, activeIntents[last.task]) # <<>>

BoundScope ==
    FindIntent(intentStore.intents, activeIntents[last.task])[1].owned_scope

IdInStore(store, id) ==
    /\ store.kind = "list"
    /\ \E k \in 1..Len(store.intents) : store.intents[k].id = id

(***************************************************************************)
(* Claims                                                                   *)
(***************************************************************************)

\* C1: with the bound intent resolved, the pre-hook of write_to_file allows
\* exactly the targets that equal an owned-scope entry or lie in the subtree
\* below one, and rejects every other target with a Scope Violation.
C1_AllowIffInScope ==
    PreWriteResolved =>
        /\ last.outcome = "resolved" <=> InOwnedScope(last.path, BoundScope)
        /\ last.outcome # "resolved" => last.outcome = "ScopeViolation"

\* C2: an entry never authorizes a target that merely starts with the
\* entry's characters: when no entry is a whole leading run of the target's
\* path components, a character-prefix match does not allow the write.
C2_ComponentWisePrefix ==
    ( /\ PreWriteResolved
      /\ ~EscapesRoot(last.path)
      /\ \E k \in 1..Len(BoundScope) :
            StartsWith(NormalizedTarget(last.path), BoundScope[k])
      /\ ~InOwnedScope(last.path, BoundScope) )
    => last.outcome = "ScopeViolation"

\* C3: a target that resolves outside the project root is rejected by the
\* pre-hook of a bound task whatever the owned scope holds.
C3_EscapeDenied ==
    (PreWriteResolved /\ EscapesRoot(last.path))
    => last.outcome # "resolved"

\* C4: a task bound to an intent with an empty owned scope gets every
\* write_to_file rejected by the pre-hook.
C4_EmptyScopeDenies ==
    (PreWriteResolved /\ BoundScope = <<>>)
    => last.outcome = "ScopeViolation"

C4_Witness ==
    /\ PreWriteResolved
    /\ BoundScope = <<>>
    /\ last.path = PathInDir
    /\ last.outcome = "ScopeViolation"

\* C5: when the bound id does not resolve in the present, parseable store,
\* the pre-hook of write_to_file rejects with IntentNotFound.
C5_UnresolvedDenied ==
    ( /\ PreWrite
      /\ activeIntents[last.task] # Undefined
      /\ intentStore.kind = "list"
      /\ FindIntent(intentStore.intents, activeIntents[last.task]) = <<>> )
    => last.outcome = "IntentNotFound"

\* C6: a write_to_file post-hook that follows the task's pre-hook for the
\* same target appends exactly one record when the pre-hook allowed the
\* write and the task is bound (the storage working), and appends no record
\* when the pre-hook rejected the write.
C6_AuditCompleteness ==
    [][ ( /\ PreWrite
          /\ last'.op = "post" /\ last'.tool = WRITE
          /\ last'.task = last.task /\ last'.path = last.path )
        => IF last.outcome = "resolved"
           THEN ( activeIntents[last.task] # Undefined
                  /\ last'.outcome = "resolved" )
                    => Len(traceLog') = Len(traceLog) + 1
           ELSE traceLog' = traceLog ]_vars

\* C7: the trace log is append-only: no step shortens it, and every record
\* in it keeps its content and its position.
C7_AppendOnly ==
    [][ /\ Len(traceLog') >= Len(traceLog)
        /\ SubSeq(traceLog', 1, Len(traceLog)) = traceLog ]_vars

C7_Witness ==
    /\ Len(traceLog) = 2
    /\ traceLog[1] # traceLog[2]
    /\ last.op = "post" /\ last.tool = WRITE

\* C8: without strict mode, the pre-hook of write_to_file for a task with no
\* bound intent allows the write on any path and warns, and the post-hook
\* of a write for such a task appends no record.
C8_UnboundAllowedUntraced ==
    /\ [](( PreWrite /\ ~last.strict
            /\ activeIntents[last.task] = Undefined )
          => ( /\ last.outcome = "resolved"
               /\ last.log = "warn-no-active-intent" ))
    /\ [][ ( /\ last'.op = "post" /\ last'.tool = WRITE
             /\ activeIntents[last'.task] = Undefined )
           => traceLog' = traceLog ]_vars

C8_Witness ==
    /\ last.op = "post" /\ last.tool = WRITE
    /\ activeIntents[last.task] = Undefined
    /\ \E t \in Tasks : activeIntents[t] # Undefined
    /\ Len(traceLog) = 1

\* C9: with strict mode enabled the pre-hook of write_to_file for a task
\* with no bound intent rejects with NoActiveIntent; with strict mode
\* disabled the same call is allowed.
C9_StrictMode ==
    (PreWrite /\ activeIntents[last.task] = Undefined)
    => IF last.strict
       THEN last.outcome = "NoActiveIntent"
       ELSE last.outcome = "resolved"

\* C10: the select-intent tool, asked for a non-empty id while the store is
\* absent or parseable, binds the task to the id only when the id is the id
\* of an intent in the store; when it is not (or there is no store) the tool
\* fails and every binding stays as it was.
C10_SelectValidated ==
    [][ ( /\ last'.op = "select_tool"
          /\ last'.intent_id # Undefined
          /\ intentStore.kind # "corrupt" )
        => LET t == last'.task
               id == last'.intent_id
           IN  /\ activeIntents'[t] # activeIntents[t]
                    => ( /\ activeIntents'[t] = id
                         /\ IdInStore(intentStore, id) )
               /\ ~IdInStore(intentStore, id)
                    => ( /\ last'.outcome = "error"
                         /\ activeIntents' = activeIntents ) ]_vars

\* C11: while the store file exists but cannot be parsed, the pre-hook of
\* write_to_file for a bound task does not allow the write: it rejects with
\* IntentStoreCorrupt (which is neither ScopeViolation nor IntentNotFound).
C11_CorruptStoreRejected ==
    ( /\ PreWrite
      /\ activeIntents[last.task] # Undefined
      /\ intentStore.kind = "corrupt" )
    => last.outcome = "IntentStoreCorrupt"

\* C12: while the store file is absent the select-intent tool selects no
\* intent, and the pre-hook of write_to_file for a task that is already
\* bound does not allow the write.
C12_AbsentStoreIsEmpty ==
    /\ ( last.op = "select_tool" /\ intentStore.kind = "absent" )
           => last.outcome = "error"
    /\ ( /\ PreWrite
         /\ activeIntents[last.task] # Undefined
         /\ intentStore.kind = "absent" )
           => last.outcome # "resolved"

\* C13: for a tool other than write_to_file the pre-hook allows the call and
\* writes nothing to the console, whatever the binding, the store and the
\* parameters are, and the post-hook appends no record.
C13_OtherToolsPassThrough ==
    /\ []( ( last.op = "pre" /\ last.tool # WRITE )
            => ( last.outcome = "resolved" /\ last.log = "none" ) )
    /\ [][ ( last'.op = "post" /\ last'.tool # WRITE )
           => ( traceLog' = traceLog /\ last'.outcome = "resolved" ) ]_vars

C13_Witness ==
    /\ last.op = "pre" /\ last.tool = READ
    /\ activeIntents[last.task] = I10
    /\ intentStore = StoreCorrupt
    /\ Len(traceLog) = 1

\* C14: a task is bound to no intent id or to one; a select_active_intent
\* post-hook with id j replaces whatever the task was bound to: afterwards
\* the task's active intent is j, and the pre-hook decides every write of
\* the task as the scope check of j decides it.
C14_SelectOverwrites ==
    /\ [](\A t \in Tasks : activeIntents[t] \in IntentIds \cup {Undefined})
    /\ [][ ( /\ last'.op = "post" /\ last'.tool = SELECT
             /\ last'.intent_id # Undefined )
           => LET t == last'.task
                  j == last'.intent_id
              IN  /\ activeIntents'[t] = j
                  /\ \A p \in Targets :
                        PreOutcome(activeIntents', intentStore', WRITE, p, t,
                                   FALSE)
                          = EnforceScope(intentStore', j, p) ]_vars

\* The task of the last call was bound to I1 when it wrote the record in the
\* log (no other task has ever been bound), and has now selected I10, whose
\* scope in this store is another one.
C14_Witness ==
    /\ last.op = "post" /\ last.tool = SELECT /\ last.intent_id = I10
    /\ activeIntents[last.task] = I10
    /\ \A t \in Tasks \ {last.task} : activeIntents[t] = Undefined
    /\ Len(traceLog) = 1 /\ traceLog[1].intent_id = I1
    /\ intentStore = StoreAlt

\* C15: a select_active_intent post-hook that repeats the call made just
\* before it (same task, same id) changes nothing: the registry after the
\* second call is the registry after the first, and the pre-hook decides
\* every write of every task as before.
C15_SelectIdempotent ==
    [][ ( last'.op = "post" /\ last'.tool = SELECT /\ last'.again )
        => /\ activeIntents' = activeIntents
           /\ \A t \in Tasks, p \in Targets :
                 PreOutcome(activeIntents', intentStore', WRITE, p, t, FALSE)
                   = PreOutcome(activeIntents, intentStore, WRITE, p, t,
                                FALSE) ]_vars

C15_Witness ==
    /\ last.op = "post" /\ last.tool = SELECT /\ last.again
    /\ last.intent_id = I10
    /\ activeIntents[last.task] = I10

\* C16: the record a write_to_file post-hook appends carries the intent id
\* the task is bound to at that moment, the tool name, the path of the
\* call's parameters and the digest of the content of the call's parameters
\* (the digest of the empty input when the call has no content).
C16_RecordContent ==
    [][ ( /\ last'.op = "post" /\ last'.tool = WRITE
          /\ last'.outcome = "resolved"
          /\ activeIntents[last'.task] # Undefined )
        => /\ Len(traceLog') = Len(traceLog) + 1
           /\ LET r == traceLog'[Len(traceLog')]
              IN  /\ r.intent_id = activeIntents[last'.task]
                  /\ r.tool = WRITE
                  /\ r.params.path = last'.path
                  /\ \A prm \in ParamsOf(WRITE) :
                        prm.path = last'.path
                        => r.params.content_hash
                             = IF prm.content = NoContent
                               THEN Sha256("")
                               ELSE Sha256(prm.content) ]_vars

\* A write without content has been logged.
C16_Witness ==
    /\ last.op = "post" /\ last.tool = WRITE /\ last.outcome = "resolved"
    /\ last.path = PathSibling
    /\ activeIntents[last.task] = I1
    /\ Len(traceLog) = 2
    /\ traceLog[2].params.path = PathSibling
    /\ traceLog[2].params.content_hash = Sha256("")
    /\ traceLog[1].params.content_hash = Sha256(SomeContent)

\* C17: a failure to append the record is not thrown out of the post-hook:
\* the promise of a post-hook call is never rejected.
C17_AppendFailureNotThrown ==
    last.op = "post" => last.outcome = "resolved"

\* C18: with the post-hooks of different tasks overlapping, the trace file
\* is at every moment a sequence of whole lines, one JSON record and its
\* newline each, and every record in it is the record of one performed
\* write whose post-hook has appended it.
C18_WholeRecords ==
    /\ Len(traceFile) = 2 * Len(traceLog)
    /\ \A k \in 1..Len(traceLog) :
          /\ traceFile[2 * k - 1].json
          /\ traceFile[2 * k - 1].entry = traceLog[k]
          /\ ~traceFile[2 * k].json
          /\ \E i \in 1..Len(performed) :
                /\ performed[i].logged = k
                /\ performed[i].path = traceLog[k].params.path

\* Two tasks' post-hooks overlapped: the record of the write performed
\* first was appended second.
C18_Witness ==
    /\ Len(traceLog) = 2 /\ Len(performed) = 2
    /\ performed[1].task # performed[2].task
    /\ performed[1].logged = 2 /\ performed[2].logged = 1
    /\ traceLog[1] # traceLog[2]

\* The step is a pre-hook call made by BaseTool.
PreStep == last' # last /\ last'.op = "pre"

\* C19: in a tool invocation the write is performed only after the
\* pre-hook of that invocation, for that path, has resolved; when the
\* pre-hook rejects (as it does when the scope check fails) the invocation
\* ends: nothing is written, no post-hook runs, nothing is appended.
C19_PreHookGates ==
    /\ [][ Len(performed') > Len(performed)
           => LET m == performed'[Len(performed')]
              IN  /\ inv[m.task].pc = "execute"
                  /\ m.path = inv[m.task].params.path ]_vars
    /\ [][ \A t \in Tasks :
             /\ ( inv'[t].pc = "execute" /\ inv[t].pc # "execute" )
                  => ( /\ inv[t].pc = "idle"
                       /\ last'.op = "pre" /\ last'.task = t
                       /\ last'.tool = WRITE
                       /\ last'.outcome = "resolved"
                       /\ last'.path = inv'[t].params.path )
             /\ ( inv'[t].pc = "post" /\ inv[t].pc # "post" )
                  => ( inv[t].pc = "execute"
                       /\ Len(performed') > Len(performed) )
             /\ ( inv'[t].pc = "append" /\ inv[t].pc # "append" )
                  => inv[t].pc = "post" ]_vars
    /\ [][ traceFile' # traceFile
           => \E t \in Tasks : inv[t].pc = "append" ]_vars
    /\ [][ ( PreStep /\ last'.outcome # "resolved" )
           => ( /\ inv'[last'.task] = Idle
                /\ performed' = performed
                /\ traceFile' = traceFile /\ traceLog' = traceLog ) ]_vars
    /\ [][ ( /\ PreStep
             /\ activeIntents[last'.task] # Undefined
             /\ intentStore.kind = "list" )
           => LET found == FindIntent(intentStore.intents,
                                      activeIntents[last'.task])
              IN  ( /\ found # <<>>
                    /\ ~IsAllowed(found[1].owned_scope,
                                  RelativePath[last'.path], last'.path) )
                  => inv'[last'.task] = Idle ]_vars

\* A task whose earlier write was performed and logged has had its next
\* write rejected by the pre-hook.
C19_Witness ==
    /\ last.op = "pre" /\ last.outcome = "ScopeViolation"
    /\ inv[last.task] = Idle
    /\ Len(performed) = 1 /\ performed[1].task = last.task
    /\ performed[1].logged = 1 /\ Len(traceLog) = 1

\* C20: the records are in the log in the order in which their writes were
\* performed, also when post-hooks overlap while they wait for the git
\* metadata.
C20_LogOrderIsActionOrder ==
    \A i, j \in 1..Len(performed) :
        ( i < j /\ performed[i].logged > 0 /\ performed[j].logged > 0 )
        => performed[i].logged < performed[j].logged

\* C21: the timestamps of the records are in log order: no record's
\* timestamp is earlier than the timestamp of a record before it in the
\* log, however the post-hooks interleave.
C21_TimestampsMonotonic ==
    \A i, j \in 1..Len(traceLog) :
        i < j => traceLog[i].timestamp <= traceLog[j].timestamp

\* C22: a call made for one task (pre-hook, post-hook, select tool) leaves
\* the binding of every other task as it was; the pre-hook's decision for a
\* task is the same whatever the other tasks are bound to; and the record a
\* post-hook appends names the intent its own task is bound to.
C22_BindingsIndependent ==
    /\ [][ last'.op \in {"pre", "post", "select_tool"}
           => \A t \in Tasks \ {last'.task} :
                 activeIntents'[t] = activeIntents[t] ]_vars
    /\ []( PreWrite
           => \A u \in Tasks \ {last.task}, id \in IntentIds \cup {Undefined} :
                 PreOutcome([activeIntents EXCEPT ![u] = id], intentStore,
                            WRITE, last.path, last.task, last.strict)
                   = Outcome(last.outcome, last.log) )
    /\ [][ ( /\ last'.op = "post" /\ last'.tool = WRITE
             /\ Len(traceLog') > Len(traceLog) )
           => traceLog'[Len(traceLog')].intent_id
                 = activeIntents[last'.task] ]_vars

\* Task t2 has selected I1 while t1, bound to I10, has a record in the log.
C22_Witness ==
    /\ last.op = "post" /\ last.tool = SELECT
    /\ last.task = "t2" /\ last.intent_id = I1
    /\ activeIntents["t1"] = I10 /\ activeIntents["t2"] = I1
    /\ Len(traceLog) = 1 /\ traceLog[1].intent_id = I10

\* C24: a pre-hook call, whether it resolves or rejects, leaves the binding
\* of every task and the trace log as they were.
C24_PreHookNoEffect ==
    [][ last'.op = "pre"
        => ( activeIntents' = activeIntents /\ traceLog' = traceLog ) ]_vars

\* The pre-hook has rejected the write of a bound task with a record in the
\* log.
C24_Witness ==
    /\ last.op = "pre" /\ last.outcome = "ScopeViolation"
    /\ activeIntents[last.task] = I10
    /\ Len(traceLog) = 1

\* C25: with a parseable store, every record in the log names an intent of
\* the store whose owned scope contains the record's path.
C25_RecordsAuthorized ==
    intentStore.kind = "list"
    => \A k \in 1..Len(traceLog) :
          LET found == FindIntent(intentStore.intents, traceLog[k].intent_id)
          IN  /\ found # <<>>
              /\ InOwnedScope(traceLog[k].params.path, found[1].owned_scope)

\* C23: the pre-hook of write_to_file for a bound task decides against the
\* store as it is at the call (here: a parseable store): it looks the bound
\* id up among the intents the file holds now, warns when the id is not
\* among them, and rejects exactly when the scope the file gives that intent
\* now does not match the path.
C23_CheckedAtUse ==
    ( /\ PreWrite
      /\ activeIntents[last.task] # Undefined
      /\ intentStore.kind = "list" )
    => LET found == FindIntent(intentStore.intents,
                               activeIntents[last.task])
       IN  IF found = <<>>
           THEN /\ last.outcome = "resolved"
                /\ last.log = "warn-intent-not-found"
           ELSE /\ last.log = "none"
                /\ last.outcome = "ScopeViolation"
                      <=> ~IsAllowed(found[1].owned_scope,
                                     RelativePath[last.path], last.path)

\* The task's write of a path was allowed, performed and logged under I10;
\* the store has been edited since, and the pre-hook now rejects the same
\* path for the same binding.
C23_Witness ==
    /\ last.op = "pre" /\ last.outcome = "ScopeViolation"
    /\ activeIntents[last.task] = I10
    /\ Len(performed) = 1 /\ performed[1].task = last.task
    /\ performed[1].path = last.path /\ performed[1].logged = 1
    /\ Len(traceLog) = 1 /\ traceLog[1].intent_id = I10
    /\ intentStore = StoreAlt

====
